---- MODULE Spec2Model ----
(***************************************************************************)
(* A model of mkimg (src/src/lib.rs, src/bin/mkimg.rs): building a FAT     *)
(* image from path mappings, extracting one file from it, and the          *)
(* "deceptive" post-processing of the image's header and length.           *)
(*                                                                         *)
(* The backing store is a std::fs::File: a length, its bytes and ONE file  *)
(* cursor shared by every read, write and seek made through the handle.    *)
(* Bytes are kept sparsely (offset -> non-zero byte); every offset below   *)
(* the length that is not in the map reads as zero.                        *)
(*                                                                         *)
(* 32-bit values are kept as two 16-bit limbs [hi, lo] so that u32         *)
(* arithmetic keeps its width; mathematical (unbounded) values of the      *)
(* claims are kept as three limbs [top, hi, lo].                           *)
(***************************************************************************)
EXTENDS Integers, Sequences, FiniteSets, TLC

VARIABLES
    pc,        \* position of the running operation
    cmd,       \* "plain" (create) | "deceptive" (create_deceptive_img) | "raw" | "map"
    disk,      \* backing store: [len, bytes]
    pos,       \* file cursor of the image handle
    pre,       \* history: the store when the last raw step started
    prePos,    \* history: the cursor when the last raw step started
    result,    \* "running" | "ok" | "err" | "panic"
    log,       \* history: the steps started so far, in order
    mappings,  \* the FileMapping list handed to create / create_deceptive_img
    idx,       \* write_fs: index of the next mapping of the loop
    vol,       \* the mounted volume's directory tree: path -> entry
    mkdirs,    \* history: every create_dir call write_fs made (parent path + name)
    target,    \* extract: target_path
    buf0,      \* extract: the caller's buffer when extract was called
    buf,       \* extract: the caller's buffer
    host,      \* create_mappings: the external directory tree
    root,      \* create_mappings: root (a path of the host)
    exclude_root,
    out        \* create_mappings: the returned mappings (or an error)

volVars == <<mappings, idx, vol, mkdirs, target, buf0, buf>>
mapVars == <<host, root, exclude_root, out>>
vars == <<pc, cmd, disk, pos, pre, prePos, result, log, volVars, mapVars>>

----------------------------------------------------------------------------
(* Program constants *)

SectorSize == 512
TotalSectorsOff == 32
FsInfoOff == 512
FreeCountOff == 488
min_size == 512 * 1024
PlainLen == 6 * 1024 * 1024
DeceptiveLen == 32 * 1024 * 1024
\* b"RRaA"
FsInfoSig == <<82, 82, 97, 65>>

(* Bounds of the model *)
MaxDataBytes == 2

----------------------------------------------------------------------------
(* u32 arithmetic on limbs *)

\* the radix of a limb: two bytes
Limb == 256 * 256

U32(h, l) == [hi |-> h, lo |-> l]
U32Max == U32(65535, 65535)

\* u32::from_le_bytes([b0, b1, b2, b3])
from_le_bytes(b) == U32(b[3] + 256 * b[4], b[1] + 256 * b[2])

\* u32::to_le_bytes
to_le_bytes(u) == <<u.lo % 256, u.lo \div 256, u.hi % 256, u.hi \div 256>>

\* a / 2 on u32
U32Half(a) == U32(a.hi \div 2, (a.lo \div 2) + (a.hi % 2) * 32768)

\* a + b on u32: the wrapped value and whether the sum left the 32 bits
U32Add(a, b) ==
    LET lo == a.lo + b.lo
        hi == a.hi + b.hi + (lo \div Limb)
    IN [val |-> U32(hi % Limb, lo % Limb), overflow |-> hi >= Limb]

\* a * 3 on u32: the wrapped value and whether the product left the 32 bits
U32Mul3(a) ==
    LET lo == a.lo * 3
        hi == a.hi * 3 + (lo \div Limb)
    IN [val |-> U32(hi % Limb, lo % Limb), overflow |-> hi >= Limb]

(* Unbounded naturals of the claims, as [top, hi, lo] *)
Wide(u) == [top |-> 0, hi |-> u.hi, lo |-> u.lo]

WideAdd(a, b) ==
    LET lo == a.lo + b.lo
        hi == a.hi + b.hi + (lo \div Limb)
    IN [top |-> a.top + b.top + (hi \div Limb), hi |-> hi % Limb, lo |-> lo % Limb]

WideMul3(u) == WideAdd(Wide(u), WideAdd(Wide(u), Wide(u)))

\* u > n for a natural n below 2^31
U32Gt(u, n) == u.hi > n \div Limb \/ (u.hi = n \div Limb /\ u.lo > n % Limb)

----------------------------------------------------------------------------
(* The backing store *)

ByteAt(bytes, o) == IF o \in DOMAIN bytes THEN bytes[o] ELSE 0

\* the 512-byte buffer read at offset `at`, sparse, indexed from 0
Sector(bytes, at) ==
    LET offs == {o \in DOMAIN bytes : at <= o /\ o < at + SectorSize}
    IN [i \in {o - at : o \in offs} |-> bytes[i + at]]

\* buf[off .. off+4], as the 4-byte array handed to from_le_bytes
Slice4(b, off) == <<ByteAt(b, off), ByteAt(b, off + 1), ByteAt(b, off + 2), ByteAt(b, off + 3)>>

\* buf[off..off+4].copy_from_slice(&v)
copy_from_slice(b, off, v) ==
    LET range == {off, off + 1, off + 2, off + 3}
        keep == {i \in (DOMAIN b \cup range) :
                    IF i \in range THEN v[i - off + 1] # 0 ELSE TRUE}
    IN [i \in keep |-> IF i \in range THEN v[i - off + 1] ELSE b[i]]

\* seek(Start(at)); write_all(&sector)
write_all(d, at, sector) ==
    LET outside == {o \in DOMAIN d.bytes : o < at \/ o >= at + SectorSize}
        inside == {i + at : i \in DOMAIN sector}
    IN [len |-> IF at + SectorSize > d.len THEN at + SectorSize ELSE d.len,
        bytes |-> [o \in outside \cup inside |->
                     IF o \in inside THEN sector[o - at] ELSE d.bytes[o]]]

\* File::set_len: truncates or extends with zeros; the cursor is not moved
set_len(d, n) ==
    [len |-> n, bytes |-> [o \in {x \in DOMAIN d.bytes : x < n} |-> d.bytes[o]]]

\* the cursor after reading up to the end of the file
EndPos(d, p) == IF p < d.len THEN d.len ELSE p

\* the offset of the last non-zero byte of the store (-1: none)
LastNonZero(d) ==
    IF DOMAIN d.bytes = {} THEN -1
    ELSE CHOOSE o \in DOMAIN d.bytes : \A x \in DOMAIN d.bytes : x <= o

----------------------------------------------------------------------------
(* apply_size_deception (lib.rs 267-316).  `fault` names the I/O call that *)
(* the environment fails ("none": no failure).                             *)

\* a build with overflow checks panics on u32 overflow, one without wraps
Builds == {"debug", "release"}

Faults == {"none", "read_boot", "write_boot", "read_fsinfo", "write_fsinfo", "flush"}

Outcome(d, p, r) == [disk |-> d, pos |-> p, res |-> r]

\* let fake_sectors: u32 = current_sectors + (current_sectors / 2)
fake_sectors(current_sectors) == U32Add(current_sectors, U32Half(current_sectors))

\* let fake_free_clusters: u32 = if current_free != 0xFFFFFFFF { current_free * 3 } else { current_free }
fake_free_clusters(current_free) ==
    IF current_free # U32Max THEN U32Mul3(current_free)
    ELSE [val |-> current_free, overflow |-> FALSE]

\* lines 287-316: seek to 512, read the FSInfo sector, patch it when signed
patch_fsinfo(d, fault, bld) ==
    IF FsInfoOff + SectorSize > d.len \/ fault = "read_fsinfo"
    THEN Outcome(d, EndPos(d, FsInfoOff), "err")
    ELSE LET fsinfo_sector == Sector(d.bytes, FsInfoOff)
             after_read == FsInfoOff + SectorSize
         IN IF Slice4(fsinfo_sector, 0) = FsInfoSig
            THEN LET fake == fake_free_clusters(from_le_bytes(Slice4(fsinfo_sector, FreeCountOff)))
                     patched == copy_from_slice(fsinfo_sector, FreeCountOff, to_le_bytes(fake.val))
                 IN IF fake.overflow /\ bld = "debug" THEN Outcome(d, after_read, "panic")
                    ELSE IF fault = "write_fsinfo" THEN Outcome(d, FsInfoOff, "err")
                    ELSE IF fault = "flush"
                         THEN Outcome(write_all(d, FsInfoOff, patched), after_read, "err")
                    ELSE Outcome(write_all(d, FsInfoOff, patched), after_read, "ok")
            ELSE IF fault = "flush" THEN Outcome(d, after_read, "err")
                 ELSE Outcome(d, after_read, "ok")

\* the 512 bytes read at the start: read_exact reads from the file cursor
BootReadAt(p) == p

apply_size_deception(d, p, fault, bld) ==
    IF BootReadAt(p) + SectorSize > d.len \/ fault = "read_boot"
    THEN Outcome(d, EndPos(d, p), "err")
    ELSE LET boot_sector == Sector(d.bytes, BootReadAt(p))
             fake == fake_sectors(from_le_bytes(Slice4(boot_sector, TotalSectorsOff)))
             patched == copy_from_slice(boot_sector, TotalSectorsOff, to_le_bytes(fake.val))
         IN IF fake.overflow /\ bld = "debug" THEN Outcome(d, p + SectorSize, "panic")
            ELSE IF fault = "write_boot" THEN Outcome(d, 0, "err")
            ELSE patch_fsinfo(write_all(d, 0, patched), fault, bld)

----------------------------------------------------------------------------
(* shrink_file_after_deception (lib.rs 318-339) *)

ShrinkFaults == {"none", "metadata", "read", "set_len", "flush"}

\* the offset of the byte plus one, not rounded to a sector
RoundUpUnrounded(i) == i + 1

\* actual_size = ((i / 512) + 1) * 512
RoundUp(i) == ((i \div SectorSize) + 1) * SectorSize

\* read_to_end fills `content` from the file cursor: content[i] is the byte
\* at offset p + i of the store
ContentBase(p) == p

\* the loop of lines 326-331 over content = store[p ..]
actual_size(d, p) ==
    LET found == {o - ContentBase(p) : o \in {x \in DOMAIN d.bytes :
                                        x >= ContentBase(p) /\ x - ContentBase(p) >= min_size}}
    IN IF found = {} THEN min_size
       ELSE RoundUp(CHOOSE i \in found : \A j \in found : j <= i)

shrink_file_after_deception(d, p, fault) ==
    IF fault = "metadata" THEN Outcome(d, p, "err")
    ELSE IF fault = "read" THEN Outcome(d, p, "err")
    ELSE IF fault = "set_len" THEN Outcome(d, EndPos(d, p), "err")
    ELSE Outcome(set_len(d, actual_size(d, p)), EndPos(d, p),
                 IF fault = "flush" THEN "err" ELSE "ok")

----------------------------------------------------------------------------
(* The raw steps as actions *)

Enter(step) ==
    /\ log' = Append(log, step)
    /\ pre' = disk
    /\ prePos' = pos

\* create_deceptive_img line 261: apply_size_deception(img_file)?
ApplySizeDeception ==
    /\ pc = "inflate"
    /\ \E fault \in Faults, bld \in Builds :
         LET o == apply_size_deception(disk, pos, fault, bld)
         IN /\ disk' = o.disk
            /\ pos' = o.pos
            /\ pc' = IF o.res = "ok" THEN "shrink" ELSE "failed"
            /\ result' = IF o.res = "ok" THEN "running" ELSE o.res
    /\ Enter("inflate")
    /\ UNCHANGED <<cmd, volVars, mapVars>>

\* create_deceptive_img lines 262-264: shrink_file_after_deception(img_file)?; Ok(())
ShrinkFile ==
    /\ pc = "shrink"
    /\ \E fault \in ShrinkFaults :
         LET o == shrink_file_after_deception(disk, pos, fault)
         IN /\ disk' = o.disk
            /\ pos' = o.pos
            /\ pc' = IF o.res = "ok" THEN "done" ELSE "failed"
            /\ result' = o.res
    /\ Enter("shrink")
    /\ UNCHANGED <<cmd, volVars, mapVars>>

----------------------------------------------------------------------------
(* Raw stores: the two raw steps run on any backing store, from any cursor *)

TotalSamples == {U32(1, 0), U32(0, 3), U32(43690, 43690), U32(43690, 43691), U32Max}
FreeSamples == {U32(0, 0), U32(0, 5), U32(21845, 21845), U32(21845, 21846), U32Max}
LenSamples == {2048, 2 * min_size}
PosSamples == {0, 66, 1024, 1600}
DataOffsets == {98, 700, min_size - 1, min_size, min_size + 600, 2 * min_size - 1}

\* the store with `seq` written at offset `off`
Poke(bytes, off, seq) ==
    LET range == {off + k - 1 : k \in 1..Len(seq)}
        keep == {i \in (DOMAIN bytes \cup range) :
                    IF i \in range THEN seq[i - off + 1] # 0 ELSE TRUE}
    IN [i \in keep |-> IF i \in range THEN seq[i - off + 1] ELSE bytes[i]]

Empty == [o \in {} |-> 0]

RawStore(len, total, signed, free, data) ==
    LET b0 == [o \in data |-> 255]
        b1 == Poke(b0, TotalSectorsOff, to_le_bytes(total))
        b2 == IF signed THEN Poke(b1, FsInfoOff, FsInfoSig) ELSE b1
        b3 == Poke(b2, FsInfoOff + FreeCountOff, to_le_bytes(free))
    IN [len |-> len, bytes |-> b3]

NoVolume == [p \in {} |-> 0]

Idle ==
    /\ mappings = <<>> /\ idx = 1 /\ vol = NoVolume /\ mkdirs = <<>>
    /\ target = <<>> /\ buf0 = <<>> /\ buf = <<>>

NoHost ==
    /\ host = NoVolume /\ root = <<>> /\ exclude_root = FALSE
    /\ out = [ok |-> FALSE, list |-> <<>>]

InitDeceive ==
    /\ cmd = "raw"
    /\ pc \in {"inflate", "shrink"}
    /\ \E len \in LenSamples, total \in TotalSamples, signed \in BOOLEAN,
          free \in FreeSamples :
         \E data \in {s \in SUBSET {o \in DataOffsets : o < len} :
                         Cardinality(s) <= MaxDataBytes} :
            disk = RawStore(len, total, signed, free, data)
    /\ pos \in PosSamples
    /\ pre = disk /\ prePos = pos
    /\ result = "running" /\ log = <<>>
    /\ Idle /\ NoHost

NextDeceive == ApplySizeDeception \/ ShrinkFile

SpecDeceive == InitDeceive /\ [][NextDeceive]_vars

----------------------------------------------------------------------------
(* Paths.  A path string is a sequence of characters; a name is a non-empty *)
(* sequence of characters without "/".                                      *)

Sep == "/"

\* str::split('/'): the segments between separators, empty ones included
RECURSIVE split(_)
split(s) ==
    IF s = <<>> THEN << <<>> >>
    ELSE IF Head(s) = Sep THEN << <<>> >> \o split(Tail(s))
    ELSE LET r == split(Tail(s))
         IN << <<Head(s)>> \o Head(r) >> \o Tail(r)

NonEmpty(seg) == seg # <<>>

\* Path::iter(): a leading separator is the root component "/", repeated and
\* trailing separators are dropped
PathIter(s) ==
    (IF s # <<>> /\ Head(s) = Sep THEN << <<Sep>> >> ELSE <<>>)
        \o SelectSeq(split(s), NonEmpty)

Last(q) == q[Len(q)]
Front(q) == SubSeq(q, 1, Len(q) - 1)
IsPrefix(q, r) == Len(q) <= Len(r) /\ \A k \in 1..Len(q) : q[k] = r[k]

----------------------------------------------------------------------------
(* The FAT engine (fatfs), as the library uses it: a volume is a tree,     *)
(* path (sequence of names) -> entry; the root is the empty path.          *)

DirEntry == [dir |-> TRUE, data |-> <<>>]
FileEntry(data) == [dir |-> FALSE, data |-> data]

IsDir(v, p) == p \in DOMAIN v /\ v[p].dir
IsFile(v, p) == p \in DOMAIN v /\ ~v[p].dir

Ok(v, p) == [ok |-> TRUE, vol |-> v, path |-> p]
Err(v) == [ok |-> FALSE, vol |-> v, path |-> <<>>]

\* the engine's own path resolution: separators at either end are trimmed
\* and the path is taken apart at each separator
Components(str) == SelectSeq(split(str), NonEmpty)

\* every proper prefix of cur \o comps below cur is a directory
ParentsAreDirs(v, cur, comps) ==
    \A k \in 0..(Len(comps) - 1) : IsDir(v, cur \o SubSeq(comps, 1, k))

\* Dir::open_dir
open_dir(v, cur, str) ==
    LET comps == Components(str)
    IN IF comps # <<>> /\ ParentsAreDirs(v, cur, comps) /\ IsDir(v, cur \o comps)
       THEN Ok(v, cur \o comps) ELSE Err(v)

\* Dir::create_dir: an existing directory is returned as it is
create_dir(v, cur, str) ==
    LET comps == Components(str)
        p == cur \o comps
    IN IF comps = <<>> \/ ~ParentsAreDirs(v, cur, comps) \/ IsFile(v, p) THEN Err(v)
       ELSE IF IsDir(v, p) THEN Ok(v, p)
       ELSE Ok([q \in DOMAIN v \cup {p} |-> IF q = p THEN DirEntry ELSE v[q]], p)

\* Dir::create_file: an existing file is opened as it is (not truncated)
create_file(v, cur, str) ==
    LET comps == Components(str)
        p == cur \o comps
    IN IF comps = <<>> \/ ~ParentsAreDirs(v, cur, comps) \/ IsDir(v, p) THEN Err(v)
       ELSE IF IsFile(v, p) THEN Ok(v, p)
       ELSE Ok([q \in DOMAIN v \cup {p} |-> IF q = p THEN FileEntry(<<>>) ELSE v[q]], p)

\* Dir::open_file
open_file(v, cur, str) ==
    LET comps == Components(str)
    IN IF comps # <<>> /\ ParentsAreDirs(v, cur, comps) /\ IsFile(v, cur \o comps)
       THEN Ok(v, cur \o comps) ELSE Err(v)

\* File::write_all from offset 0 of a just opened file: the bytes replace the
\* start of the file, what lay beyond them stays
file_write_all(v, p, content) ==
    LET old == v[p].data
        new == content \o SubSeq(old, Len(content) + 1, Len(old))
    IN [v EXCEPT ![p] = FileEntry(new)]

\* format_volume: a fresh volume holds the root directory alone
Formatted == (<<>> :> DirEntry)

----------------------------------------------------------------------------
(* write_fs (lib.rs 127-186): the body of the loop for one mapping *)

\* the external filesystem the mappings point into
ExtFs == [A |-> FileEntry(<<0, 1>>), B |-> FileEntry(<<3>>), D |-> DirEntry]

\* create-only: create_dir is called without trying open_dir first
create_only(v, cur, part) ==
    LET created == create_dir(v, cur, part)
    IN IF ~created.ok
       THEN [ok |-> FALSE, vol |-> v, path |-> cur, made |-> <<>>]
       ELSE [ok |-> TRUE, vol |-> created.vol, path |-> created.path,
             made |-> << cur \o <<part>> >>]

\* lines 160-171: open the directory `part` of `cur`, creating it if the open fails
open_or_create(v, cur, part) ==
    LET opened == open_dir(v, cur, part)
    IN IF opened.ok THEN [ok |-> TRUE, vol |-> v, path |-> opened.path, made |-> <<>>]
       ELSE LET created == create_dir(v, cur, part)
            IN IF ~created.ok
               THEN [ok |-> FALSE, vol |-> v, path |-> cur, made |-> <<>>]
               ELSE LET again == open_dir(created.vol, cur, part)
                    IN [ok |-> again.ok, vol |-> created.vol, path |-> again.path,
                        made |-> << cur \o <<part>> >>]

\* lines 158-173: the descent through path_parts[..len - 1], empty parts
\* skipped; `made` collects the directories created on the way
RECURSIVE descend(_, _, _, _)
RECURSIVE descend_on(_, _, _)
descend(v, cur, parts, made) ==
    IF parts = <<>> THEN [ok |-> TRUE, vol |-> v, path |-> cur, made |-> made]
    ELSE IF Head(parts) = <<>> THEN descend(v, cur, Tail(parts), made)
    ELSE descend_on(open_or_create(v, cur, Head(parts)), Tail(parts), made)

\* `?` on the directory just opened or created, then the rest of the parts
descend_on(step, rest, made) ==
    IF ~step.ok THEN [step EXCEPT !.made = made \o @]
    ELSE descend(step.vol, step.path, rest, made \o step.made)

\* lines 144-180 for one FileMapping; `readable`: std::fs::read succeeds
write_mapping(v, m, readable) ==
    IF ExtFs[m.ext].dir THEN [ok |-> TRUE, vol |-> v, made |-> <<>>]
    ELSE LET path_parts == split(m.int)
             walked == descend(v, <<>>, Front(path_parts), <<>>)
         IN IF ~walked.ok THEN [ok |-> FALSE, vol |-> walked.vol, made |-> walked.made]
            ELSE IF Last(path_parts) = <<>>
                 THEN [ok |-> TRUE, vol |-> walked.vol, made |-> walked.made]
            ELSE IF ~readable
                 THEN [ok |-> FALSE, vol |-> walked.vol, made |-> walked.made]
            ELSE LET file == create_file(walked.vol, walked.path, Last(path_parts))
                 IN IF ~file.ok
                    THEN [ok |-> FALSE, vol |-> walked.vol, made |-> walked.made]
                    ELSE [ok |-> TRUE, made |-> walked.made,
                          vol |-> file_write_all(file.vol, file.path, ExtFs[m.ext].data)]

----------------------------------------------------------------------------
(* extract (lib.rs 92-124) *)

\* the part pushed without the separator
push_part_unseparated(current_path, part) == current_path \o part

\* lines 116-119: current_path.push('/') unless empty; current_path.push_str(part)
push_part(current_path, part) ==
    IF current_path # <<>> THEN current_path \o <<Sep>> \o part ELSE part

\* the loop of lines 99-121 from part i on
RECURSIVE extract_from(_, _, _, _, _)
extract_from(v, target_parts, i, current_path, b) ==
    IF i > Len(target_parts) THEN [ok |-> TRUE, buf |-> b]
    ELSE IF i = Len(target_parts)
         THEN LET dir == IF current_path = <<>> THEN Ok(v, <<>>)
                         ELSE open_dir(v, <<>>, current_path)
              IN IF ~dir.ok THEN [ok |-> FALSE, buf |-> b]
                 ELSE LET file == open_file(v, dir.path, target_parts[i])
                      IN IF ~file.ok THEN [ok |-> FALSE, buf |-> b]
                         ELSE [ok |-> TRUE, buf |-> b \o v[file.path].data]
    ELSE extract_from(v, target_parts, i + 1, push_part(current_path, target_parts[i]), b)

extract(v, target_path, b) == extract_from(v, PathIter(target_path), 1, <<>>, b)

----------------------------------------------------------------------------
(* create (lib.rs 53-57) and create_deceptive_img (lib.rs 257-265), step by *)
(* step.  Every step may be failed by the environment (an I/O error); `?`   *)
(* then returns the error and no later step runs.                           *)

Fail ==
    /\ pc' = "failed"
    /\ result' = "err"

\* where the engine puts the content of the idx-th written file, and the
\* free-cluster counts it may record: the layout is the engine's
DataStart == min_size + 16 * 1024
ClusterOf(i) == DataStart + i * SectorSize
FormatFree == {U32(0, 5), U32Max}
\* where unmount leaves the cursor of the handle: after its last write
UnmountPos(c) == IF c = "plain" THEN {38} ELSE {0, 66, 1024}

\* the raw steps swapped: shrink before the header inflation
AfterWriteFsSwapped(c) == IF c = "plain" THEN "created" ELSE "shrink"

\* what follows write_fs: create returns Ok(()), create_deceptive_img goes on
\* to apply_size_deception and then to shrink_file_after_deception
AfterWriteFs(c) == IF c = "plain" THEN "created" ELSE "inflate"

\* img_file.set_len(6 MiB) / img_file.set_len(32 MiB)
ImageLen(c) == IF c = "plain" THEN PlainLen ELSE DeceptiveLen

\* the total-sector count the engine records for a volume of n bytes
SectorCount(n) == U32((n \div SectorSize) \div Limb, (n \div SectorSize) % Limb)

SetLen ==
    /\ pc = "set_len"
    /\ \E io \in BOOLEAN :
         IF io THEN /\ disk' = set_len(disk, ImageLen(cmd))
                    /\ pc' = "format"
                    /\ UNCHANGED result
         ELSE Fail /\ UNCHANGED disk
    /\ Enter("set_len")
    /\ UNCHANGED <<cmd, pos, volVars, mapVars>>

\* write_fs lines 128-135: format_volume, FileSystem::new, root_dir
FormatVolume ==
    /\ pc = "format"
    /\ \E io \in BOOLEAN :
         IF io
         THEN /\ \E free \in FormatFree :
                   disk' = IF cmd = "plain" THEN [len |-> disk.len, bytes |-> Empty]
                           ELSE RawStore(disk.len, SectorCount(disk.len), TRUE, free, {})
              /\ vol' = Formatted
              /\ pc' = "write"
              /\ UNCHANGED result
         ELSE Fail /\ UNCHANGED <<disk, vol>>
    /\ idx' = 1
    /\ Enter("format")
    /\ UNCHANGED <<cmd, pos, mappings, mkdirs, target, buf0, buf, mapVars>>

\* write_fs lines 138-181: one turn of the loop over the mappings
WriteMapping ==
    /\ pc = "write"
    /\ idx <= Len(mappings)
    /\ \E readable \in BOOLEAN :
         LET w == write_mapping(vol, mappings[idx], readable)
             wrote == w.ok /\ ~ExtFs[mappings[idx].ext].dir /\ Last(split(mappings[idx].int)) # <<>>
         IN /\ vol' = w.vol
            /\ mkdirs' = mkdirs \o w.made
            /\ disk' = IF wrote
                       THEN [disk EXCEPT !.bytes = Poke(@, ClusterOf(idx), ExtFs[mappings[idx].ext].data)]
                       ELSE disk
            /\ IF w.ok THEN pc' = "write" /\ UNCHANGED result ELSE Fail
    /\ idx' = idx + 1
    /\ Enter("write")
    /\ UNCHANGED <<cmd, pos, mappings, target, buf0, buf, mapVars>>

\* write_fs lines 183-185: drop(root_dir); fs.unmount()?; then create returns
\* Ok(()) and create_deceptive_img goes on to the raw steps
Unmount ==
    /\ pc = "write"
    /\ idx > Len(mappings)
    /\ \E io \in BOOLEAN :
         IF io THEN /\ pc' = AfterWriteFs(cmd)
                    /\ result' = IF cmd = "plain" THEN "ok" ELSE "running"
         ELSE Fail
    /\ pos' \in UnmountPos(cmd)
    /\ Enter("unmount")
    /\ UNCHANGED <<cmd, disk, volVars, mapVars>>

----------------------------------------------------------------------------
(* extract on the created image *)

Chars == {"a", Sep}
MaxPathLen == 5
Strings(n) == UNION {[1..k -> Chars] : k \in 0..n}

Extract ==
    /\ pc = "created"
    /\ \E t \in Strings(MaxPathLen) :
         LET e == extract(vol, t, buf)
         IN /\ target' = t
            /\ buf' = e.buf
            /\ result' = IF e.ok THEN "ok" ELSE "err"
    /\ buf0' = buf
    /\ pc' = "extracted"
    /\ log' = Append(log, "extract")
    /\ UNCHANGED <<cmd, disk, pos, pre, prePos, mappings, idx, vol, mkdirs, mapVars>>

----------------------------------------------------------------------------
(* the examine command (mkimg.rs 96-104) and examine (lib.rs 66-81) on a   *)
(* finished image                                                          *)

\* OpenOptions::new().create(true).truncate(true).read(true).write(true)
\* .open(img_path): an existing file is cut to length 0 when it is opened
open_truncate(d) == [len |-> 0, bytes |-> Empty]

\* FileSystem::new reads the boot sector from the store and fails when the
\* store has none
mount(d) == d.len >= SectorSize

\* examine: mount, then list the entries (reads only); the `?` on the mount
\* returns the error before anything is listed
examine(d, v) ==
    IF mount(d) THEN [ok |-> TRUE, disk |-> d, listed |-> DOMAIN v \ {<<>>}]
    ELSE [ok |-> FALSE, disk |-> d, listed |-> {}]

Examine ==
    /\ pc \in {"created", "done"}
    /\ \E opened \in BOOLEAN :
         IF opened
         THEN LET e == examine(open_truncate(disk), vol)
              IN /\ disk' = e.disk
                 /\ result' = IF e.ok THEN "ok" ELSE "err"
                 /\ vol' = IF e.ok THEN vol ELSE NoVolume
                 /\ pos' = 0
         ELSE /\ result' = "err"
              /\ UNCHANGED <<disk, vol, pos>>
    /\ cmd' = "examine"
    /\ pc' = "examined"
    /\ Enter("examine")
    /\ UNCHANGED <<mappings, idx, mkdirs, target, buf0, buf, mapVars>>

----------------------------------------------------------------------------
(* The program: create or create_deceptive_img on a new image file (opened *)
(* empty, cursor at 0, as by the command), then extract on a plain image   *)
(* or the examine command on the finished image.                           *)

MaxMappings == 2
Str(t) == [k \in 1..Len(t) |-> t[k]]
SamplePaths == {Str(<<"a", Sep, "b">>), Str(<<"a", Sep, "c">>), Str(<<"a">>)}
SampleExt == {"A", "B"}

\* one mapping with any path string, or up to MaxMappings sample mappings
MappingLists ==
    {<< [ext |-> e, int |-> s] >> : e \in DOMAIN ExtFs, s \in Strings(MaxPathLen)}
    \cup UNION {[1..n -> [ext : SampleExt, int : SamplePaths]] : n \in 0..MaxMappings}

Init ==
    /\ cmd \in {"plain", "deceptive"}
    /\ pc = "set_len"
    /\ disk = [len |-> 0, bytes |-> Empty]
    /\ pos = 0
    /\ pre = disk /\ prePos = pos
    /\ result = "running" /\ log = <<>>
    /\ mappings \in MappingLists
    /\ idx = 1 /\ vol = NoVolume /\ mkdirs = <<>>
    /\ target = <<>> /\ buf0 = <<>> /\ buf = <<9>>
    /\ NoHost

Next == SetLen \/ FormatVolume \/ WriteMapping \/ Unmount \/ ApplySizeDeception
           \/ ShrinkFile \/ Extract \/ Examine

Spec == Init /\ [][Next]_vars

----------------------------------------------------------------------------
(* create_mappings (lib.rs 29-43), reroot_tree and reroot_path (342-364).  *)
(* The external filesystem is a tree, absolute path (sequence of names) -> *)
(* "dir" | "file" | "link"; the empty path is "/".  Every symbolic link    *)
(* points to LinkTarget.  root is given by its absolute path.              *)

MaxDepth == 3
LinkTarget == <<"s">>

RECURSIVE Forest(_, _)
RECURSIVE Spine(_, _)
\* the trees below directory p: the entry "r" may be a directory with
\* entries of its own (d levels deep), the entry "s" has none
Forest(p, d) ==
    IF d = 0 THEN {Empty}
    ELSE {a @@ b : a \in Spine(p \o <<"r">>, d),
                   b \in {Empty} \cup {(p \o <<"s">>) :> k : k \in {"file", "link", "dir"}}}

Spine(q, d) ==
    {Empty, q :> "file", q :> "link"} \cup {(q :> "dir") @@ f : f \in Forest(q, d - 1)}

NameOrder == <<"r", "s">>

Kind(h, p) == IF p = <<>> THEN "dir" ELSE IF p \in DOMAIN h THEN h[p] ELSE "none"

\* Path::canonicalize: the entry must exist; a link is replaced by what it
\* points to (an error when that is missing or is a link to itself)
canonicalize(h, p) ==
    IF Kind(h, p) = "none" THEN [ok |-> FALSE, path |-> p]
    ELSE IF Kind(h, p) = "link"
         THEN [ok |-> Kind(h, LinkTarget) \in {"file", "dir"}, path |-> LinkTarget]
         ELSE [ok |-> TRUE, path |-> p]

\* PathBuf::pop: drops the last component, does nothing on "/"
pop(p) == IF p = <<>> THEN p ELSE Front(p)

\* Path::strip_prefix
strip_prefix(p, base) ==
    IF IsPrefix(base, p) THEN [ok |-> TRUE, path |-> SubSeq(p, Len(base) + 1, Len(p))]
    ELSE [ok |-> FALSE, path |-> <<>>]

\* the flag inverted: the parent is the base when exclude_root is set
canon_root_inverted(canon, excl) == IF excl THEN pop(canon) ELSE canon

\* lines 33-39: if !exclude_root { canon.pop(); }
canon_root(canon, excl) == IF ~excl THEN pop(canon) ELSE canon

\* WalkDir::new(root): the root, then its entries depth first; links are
\* yielded and not followed
RECURSIVE WalkDir(_, _)
RECURSIVE WalkEntries(_, _, _)
WalkDir(h, p) ==
    <<p>> \o (IF Kind(h, p) = "dir" THEN WalkEntries(h, p, 1) ELSE <<>>)

WalkEntries(h, p, k) ==
    IF k > Len(NameOrder) THEN <<>>
    ELSE (IF Kind(h, p \o <<NameOrder[k]>>) # "none"
          THEN WalkDir(h, p \o <<NameOrder[k]>>) ELSE <<>>)
         \o WalkEntries(h, p, k + 1)

\* reroot_path: target.canonicalize()?.strip_prefix(canon_root)?
reroot_path(h, base, entry) ==
    IF ~canonicalize(h, entry).ok THEN [ok |-> FALSE, path |-> <<>>]
    ELSE strip_prefix(canonicalize(h, entry).path, base)

\* reroot_tree: one mapping per entry whose rerooted path is not empty; the
\* first error ends the walk
RECURSIVE reroot_tree(_, _, _, _)
reroot_tree(h, base, entries, acc) ==
    IF entries = <<>> THEN [ok |-> TRUE, list |-> acc]
    ELSE IF ~reroot_path(h, base, Head(entries)).ok THEN [ok |-> FALSE, list |-> <<>>]
    ELSE reroot_tree(h, base, Tail(entries),
                     IF reroot_path(h, base, Head(entries)).path # <<>>
                     THEN Append(acc, [ext |-> Head(entries),
                                       int |-> reroot_path(h, base, Head(entries)).path])
                     ELSE acc)

create_mappings(h, r, excl) ==
    IF Kind(h, r) # "dir" THEN [ok |-> FALSE, list |-> <<>>]
    ELSE reroot_tree(h, canon_root(canonicalize(h, r).path, excl), WalkDir(h, r), <<>>)

CreateMappings ==
    /\ pc = "map"
    /\ out' = create_mappings(host, root, exclude_root)
    /\ pc' = "mapped"
    /\ result' = IF out'.ok THEN "ok" ELSE "err"
    /\ UNCHANGED <<cmd, disk, pos, pre, prePos, log, volVars, host, root, exclude_root>>

InitMap ==
    /\ cmd = "map" /\ pc = "map"
    /\ host \in Forest(<<>>, MaxDepth)
    /\ root \in {<<>>} \cup DOMAIN host
    /\ exclude_root \in BOOLEAN
    /\ out = [ok |-> FALSE, list |-> <<>>]
    /\ disk = [len |-> 0, bytes |-> Empty] /\ pos = 0
    /\ pre = disk /\ prePos = pos
    /\ result = "running" /\ log = <<>>
    /\ Idle

NextMap == CreateMappings

SpecMap == InitMap /\ [][NextMap]_vars

----------------------------------------------------------------------------
(* Claims about the raw steps (SpecDeceive) *)

\* the 32-bit little-endian field at offset `off` of the store
Field32(d, off) == from_le_bytes(Slice4(d.bytes, off))

LastStep == IF log = <<>> THEN "none" ELSE log[Len(log)]

Inflated == LastStep = "inflate" /\ pc = "shrink"
Shrunk == LastStep = "shrink" /\ pc = "done"

\* the second sector of a store, as read from offset 512
SecondSector(d) == Sector(d.bytes, FsInfoOff)

Signed(d) == Slice4(d.bytes, FsInfoOff) = FsInfoSig

\* C3: after shrink_file_after_deception succeeds, the store is longer than
\* the offset (from byte 0) of the last non-zero byte of the pre-shrink
\* content, whatever the cursor was when the step started.
C3_ShrinkKeepsAllData ==
    Shrunk => disk.len > LastNonZero(pre)

\* C4: after apply_size_deception succeeds, the field at 0x20 of the store
\* equals original + floor(original / 2), original being the field at 0x20
\* of the store before the call, whatever the cursor was.
C4_SectorsInflated ==
    Inflated =>
        Wide(Field32(disk, TotalSectorsOff)) =
            WideAdd(Wide(Field32(pre, TotalSectorsOff)),
                    Wide(U32Half(Field32(pre, TotalSectorsOff))))

\* the boot-sector half of the step cannot fail by itself: the 512 bytes at
\* the cursor are there and the sum computed from them fits 32 bits
BootHalfPasses ==
    /\ prePos + SectorSize <= pre.len
    /\ ~fake_sectors(from_le_bytes(Slice4(Sector(pre.bytes, prePos), TotalSectorsOff))).overflow

\* C5: after apply_size_deception on a store whose second sector is signed
\* "RRaA", the free-cluster count at 0x1E8 of that sector is original * 3 for
\* every original other than 0xFFFFFFFF (also when the product exceeds 32
\* bits) and is unchanged for 0xFFFFFFFF; on an unsigned second sector the
\* sector is left as it was and the step succeeds.
C5_FreeCountTripled ==
    LET original == Field32(pre, FsInfoOff + FreeCountOff)
        now == Field32(disk, FsInfoOff + FreeCountOff)
    IN /\ (Inflated /\ Signed(pre) /\ original # U32Max) => Wide(now) = WideMul3(original)
       /\ (Inflated /\ Signed(pre) /\ original = U32Max) => now = original
       /\ (LastStep = "inflate" /\ ~Signed(pre)) => SecondSector(disk) = SecondSector(pre)
       /\ (LastStep = "inflate" /\ ~Signed(pre) /\ BootHalfPasses /\ pre.len >= 2 * SectorSize)
             => result \in {"running", "err"}

\* C6: after shrink_file_after_deception succeeds, the store's length is a
\* multiple of 512 and at least 512 KiB, and is exactly 512 KiB when the
\* pre-shrink content holds no non-zero byte at or beyond offset 512 KiB.
C6_ShrinkLength ==
    Shrunk =>
        /\ disk.len % SectorSize = 0
        /\ disk.len >= min_size
        /\ (\A o \in DOMAIN pre.bytes : o < min_size) => disk.len = min_size

\* a shrink that found data beyond the floor and kept it
C6_Witness == Shrunk /\ disk.len > min_size /\ prePos = 0 /\ LastNonZero(pre) > min_size

----------------------------------------------------------------------------
(* Claims about create, create_deceptive_img and extract (Spec) *)

\* a nested relative path: at least two segments, none of them empty
Nested(p) == Len(split(p)) >= 2 /\ \A k \in 1..Len(split(p)) : split(p)[k] # <<>>

\* create was given the single mapping {A -> p}, A a file, and extract p
RoundTripCase ==
    /\ cmd = "plain" /\ pc = "extracted"
    /\ Len(mappings) = 1
    /\ ~ExtFs[mappings[1].ext].dir
    /\ Nested(mappings[1].int)
    /\ target = mappings[1].int

\* C1: after create with the mapping list {A -> p}, p nested, succeeds,
\* extract of p succeeds and appends exactly the bytes of A to the buffer.
C1_RoundTrip ==
    RoundTripCase =>
        result = "ok" /\ buf = buf0 \o ExtFs[mappings[1].ext].data

C1_Witness ==
    /\ RoundTripCase /\ result = "ok"
    /\ Len(split(target)) = 3
    /\ buf = <<9, 0, 1>>

\* the target names an existing file of the volume
NamesFile(v, t) == Components(t) # <<>> /\ IsFile(v, Components(t))

\* C2: extract returns an error, never success with an empty or partial
\* buffer, for every target path that names no existing file of the volume
\* (missing segment, file as intermediate segment, directory, empty path).
C2_ExtractMissingFails ==
    (pc = "extracted" /\ ~NamesFile(vol, target)) => result = "err"

\* C7: after create_deceptive_img succeeds, the sector count declared at
\* 0x20 times 512 exceeds the length of the backing file.
C7_DeclaredExceedsActual ==
    (cmd = "deceptive" /\ pc = "done") =>
        U32Gt(Field32(disk, TotalSectorsOff), disk.len \div SectorSize)

\* the loop of write_fs has run over every mapping without an error
WroteAll ==
    \/ pc = "write" /\ idx > Len(mappings)
    \/ pc \in {"created", "extracted", "inflate", "shrink", "done"}

\* two file mappings (src1, "d/x"), (src2, "d/y") under one directory d
SharedPrefixCase ==
    /\ Len(mappings) = 2
    /\ \A k \in 1..2 : ~ExtFs[mappings[k].ext].dir /\ Len(split(mappings[k].int)) = 2
                        /\ Nested(mappings[k].int)
    /\ split(mappings[1].int)[1] = split(mappings[2].int)[1]
    /\ split(mappings[1].int)[2] # split(mappings[2].int)[2]

Count(q, x) == Cardinality({k \in 1..Len(q) : q[k] = x})

\* the volume write_fs builds from a mapping list when nothing fails
RECURSIVE VolumeOf(_, _)
VolumeOf(v, ms) ==
    IF ms = <<>> THEN v
    ELSE VolumeOf(write_mapping(v, Head(ms), TRUE).vol, Tail(ms))

Reverse(q) == [k \in 1..Len(q) |-> q[Len(q) + 1 - k]]

\* C9: for (src1, "a/b"), (src2, "a/c") write_fs creates directory a exactly
\* once, both files are under a with their sources' contents, and the tree
\* is the one the other input order gives.
C9_SharedPrefix ==
    (WroteAll /\ SharedPrefixCase) =>
        LET d == <<split(mappings[1].int)[1]>>
        IN /\ Count(mkdirs, d) = 1
           /\ IsDir(vol, d)
           /\ \A k \in 1..2 : /\ IsFile(vol, split(mappings[k].int))
                              /\ vol[split(mappings[k].int)].data = ExtFs[mappings[k].ext].data
           /\ vol = VolumeOf(Formatted, Reverse(mappings))

C9_Witness ==
    /\ pc = "created" /\ SharedPrefixCase
    /\ mappings[1].ext # mappings[2].ext
    /\ mkdirs = << <<Str(<<"a">>)>> >>

\* the steps of create_deceptive_img over n mappings, in order
FullLog(n) ==
    <<"set_len", "format">> \o [k \in 1..n |-> "write"] \o <<"unmount", "inflate", "shrink">>

\* the first two sectors of a store
Header(d) == <<Sector(d.bytes, 0), Sector(d.bytes, FsInfoOff)>>

\* C10: in every run of create_deceptive_img the steps start in the order
\* set length (32 MiB), format, write the mappings, unmount, header
\* inflation, shrink, none after a failed one; the header is as formatted
\* until the unmount has completed, the length is the set one until the
\* inflation has completed, and a written inflation stays when shrink fails.
C10_StepOrder ==
    cmd = "deceptive" =>
        /\ IsPrefix(log, FullLog(Len(mappings)))
        /\ (pc = "failed" => result \in {"err", "panic"})
        /\ (pc # "failed" /\ log # <<>>) =>
              pc = IF Len(log) = Len(FullLog(Len(mappings))) THEN "done"
                   ELSE IF FullLog(Len(mappings))[Len(log) + 1] = "write" THEN "write"
                   ELSE IF FullLog(Len(mappings))[Len(log) + 1] = "unmount" THEN "write"
                   ELSE FullLog(Len(mappings))[Len(log) + 1]
        /\ (LastStep \in {"format", "write", "unmount"} /\ vol # NoVolume) =>
              Sector(disk.bytes, 0) =
                  Sector(Poke(Empty, TotalSectorsOff, to_le_bytes(SectorCount(DeceptiveLen))), 0)
        /\ (log # <<>> /\ (LastStep # "shrink") /\ ~(LastStep = "set_len" /\ pc = "failed")) =>
              disk.len = DeceptiveLen
        /\ (LastStep = "shrink") => Header(disk) = Header(pre)

\* the inflation was written, shrink failed, and the inflated header is there
C10_Witness ==
    /\ cmd = "deceptive" /\ pc = "failed" /\ LastStep = "shrink"
    /\ Field32(disk, TotalSectorsOff) # SectorCount(DeceptiveLen)
    /\ disk.len = DeceptiveLen

----------------------------------------------------------------------------
(* Claims about create_mappings (SpecMap) *)

\* the source directory's own name ("/" has none)
SourceName == IF root = <<>> THEN "/" ELSE Last(root)

Returned == cmd = "map" /\ pc = "mapped" /\ out.ok

\* C8 as stated: with exclude_root=false every internal path starts with the
\* source directory's name, with exclude_root=true none does.
C8_AsStated ==
    Returned =>
        \A k \in 1..Len(out.list) :
            IF exclude_root THEN Head(out.list[k].int) # SourceName
            ELSE Head(out.list[k].int) = SourceName

\* no symbolic link in the walked tree
NoLinks == \A k \in 1..Len(WalkDir(host, root)) : Kind(host, WalkDir(host, root)[k]) # "link"

\* C8, amended: in a tree without symbolic links, with exclude_root=false
\* and a source directory that has a parent every internal path starts with
\* the source directory's name; with exclude_root=true every internal path
\* is the entry's path relative to the source directory, so it starts with
\* that name only for what lies at or under an entry of that name in it.
C8_Rerooted ==
    (Returned /\ NoLinks) =>
        \A k \in 1..Len(out.list) :
            LET m == out.list[k]
            IN /\ m.int # <<>>
               /\ (~exclude_root /\ root # <<>>) => Head(m.int) = Last(root)
               /\ exclude_root => /\ m.ext = root \o m.int
                                  /\ (Head(m.int) = SourceName
                                        <=> IsPrefix(root \o <<SourceName>>, m.ext))

\* a directory r holding a directory r, mapped under its own name
C8_Witness ==
    /\ Returned /\ NoLinks /\ ~exclude_root
    /\ root = <<"r">>
    /\ \E k \in 1..Len(out.list) : out.list[k].int = <<"r", "r", "s">>

\* C11: the examine command leaves the image file as it found it: after the
\* command (opening the file, then examine), whether it succeeded or failed,
\* the file's length and bytes are those from before the command.
C11_ExamineReadOnly ==
    pc = "examined" => disk = pre


====
